---- MODULE Spec2Model ----
(***************************************************************************)
(* Model of the recruiter-agent approval workflow.                         *)
(*                                                                         *)
(* Spec     : the single-stage workflow of src/main.py                     *)
(*            (EmailWorkflowManager: draft_email -> send_email |           *)
(*            cancel_operation, compiled with a MemorySaver checkpointer   *)
(*            and interrupt_after=["draft_email"]).                        *)
(*                                                                         *)
(* SpecEnh  : the two-stage workflow (start, decide_enhancement,           *)
(*            decide_send, get_state) of spec.md 4.1, whose code is not    *)
(*            among the sources; it decides with the same comparison as    *)
(*            _should_send_email.                                          *)
(*                                                                         *)
(* SpecTool : the tool-use variant: agent_node, should_continue and        *)
(*            execute_tool_node of src/main.py, with the approval gate      *)
(*            (approve yes | no | retry, MAX_RETRIES) of spec.md 4.1,       *)
(*            whose code is not among the sources.                          *)
(*                                                                         *)
(* SpecUpload : two upload_file requests of src/server.py over the dicts   *)
(*            JOB_DETAILS and CV_DETAILS and global_lock (globalc.py is    *)
(*            not among the sources: a mutual-exclusion lock and two       *)
(*            dicts, empty at import).  A handler can be preempted between *)
(*            any two statements; on_loop tells the runs a single event    *)
(*            loop produces, where the part of a handler after its await   *)
(*            runs without interruption.                                   *)
(*                                                                         *)
(* SpecService : the in-memory approval queue of src/api/email_service.py  *)
(*            (pending_approvals, sent_emails, email_threads).             *)
(*                                                                         *)
(* SpecRoute : should_continue of src/main.py, applied to every small      *)
(*            AgentState.                                                  *)
(*                                                                         *)
(* SpecStream : the event generator of improve_email_stream                *)
(*            (src/server.py), one step per yield or await.                *)
(*                                                                         *)
(* SpecGmail : get_thread_messages, _clean_email_body and                  *)
(*            get_messages_by_email of src/gmail_tools.py over a mailbox   *)
(*            of three messages.                                           *)
(*                                                                         *)
(* Graph runtime.  EmailWorkflowManager drives the graph through           *)
(* self.app.stream(input, config).  The model takes the graph as main.py   *)
(* declares it: start_workflow runs the graph from its entry point and     *)
(* stops at the interrupt after draft_email; resume_workflow on a thread   *)
(* that is suspended at that interrupt supplies user_feedback and runs the *)
(* conditional edge and the node it selects; a stream() call on a thread   *)
(* with nothing suspended (no checkpoint, a failed draft, a finished run)  *)
(* runs the graph from its entry point.  Every key of the input overwrites *)
(* that key of the checkpointed state, before any node runs.               *)
(***************************************************************************)
EXTENDS Integers, Sequences, FiniteSets, TLC

\* ---------------------------------------------------------------- bounds
\* Longest text the Draft Generator returns / the caller requests.
MaxTextLen == 2

\* Thread ids (session ids) of the checkpointer.  Threads share no state, so
\* two ids are enough to show one session next to another.
SessionIds == {"s1", "s2"}

\* ---------------------------------------------------------------- values
\* A key that is absent from the checkpointed state (state.get(k) is None).
Null == <<"<absent>">>

\* The Draft Generator raising instead of returning text.
GenRaises == <<"<raise>">>

\* Texts are strings; only their identity and their length are observed.
Text(n) == [i \in 1..n |-> "x"]

Texts == {Text(n) : n \in 0..MaxTextLen}

UserRequests == {Text(1), Text(2)}

\* What one invocation of email_generation_chain can do.
GenOutcomes == Texts \cup {GenRaises}

\* Decision strings a caller may pass, as sequences of characters.
S_yes == <<"y", "e", "s">>

S_no == <<"n", "o">>

S_empty == <<>>

S_maybe == <<"m", "a", "y", "b", "e">>

S_YES_please == <<"Y", "E", "S", " ", "p", "l", "e", "a", "s", "e">>

S_padded_YES == <<" ", "Y", "E", "S", " ">>

S_Yes == <<"Y", "e", "s">>

Choices == {S_yes, S_no, S_empty, S_maybe, S_YES_please, S_padded_YES, S_Yes}

\* The decisions tried on the single-stage workflow: "yes", a "yes" that needs
\* both strip() and lower(), "no", and a near miss.
SendChoices == {S_yes, S_padded_YES, S_no, S_YES_please}

\* ------------------------------------------------- str.strip / str.lower
IsSpace(c) == c \in {" ", "\t", "\n", "\r"}

RECURSIVE LStrip(_)
LStrip(s) ==
    IF s = <<>> THEN s
    ELSE IF IsSpace(Head(s)) THEN LStrip(Tail(s)) ELSE s

RECURSIVE RStrip(_)
RStrip(s) ==
    IF s = <<>> THEN s
    ELSE IF IsSpace(s[Len(s)]) THEN RStrip(SubSeq(s, 1, Len(s) - 1)) ELSE s

Strip(s) == RStrip(LStrip(s))

LowerChar(c) ==
    CASE c = "Y" -> "y"
      [] c = "E" -> "e"
      [] c = "S" -> "s"
      [] OTHER -> c

Lower(s) == [i \in 1..Len(s) |-> LowerChar(s[i])]

\* feedback = state.get("user_feedback", "").strip().lower()
NormalizeFeedback(raw) == Lower(Strip(raw))

\* The comparison without strip().
IsYesNoStrip(raw) == Lower(raw) = S_yes

\* A looser test: the normalised text only has to start with "yes".
IsYesPrefix(raw) ==
    LET f == NormalizeFeedback(raw)
    IN  Len(f) >= 3 /\ SubSeq(f, 1, 3) = S_yes

\* if feedback == "yes"
IsYes(raw) == NormalizeFeedback(raw) = S_yes

\* ------------------------------------------------------------- the state
VARIABLES
    threads,   \* MemorySaver: thread id -> checkpointed graph state
    ret,       \* what the last start_workflow / resume_workflow call returned
    sessions,  \* two-stage workflow: session id -> Session
    io,        \* two-stage workflow: the last operation, its error and the
               \* collaborator calls it made
    agent,     \* tool-use variant: the AgentState and the session's status
    tio,       \* tool-use variant: the last operation and the tool it invoked
    pc,        \* upload_file: where each request's handler stands
    global_lock,  \* globalc.global_lock: its holder, or "free"
    JOB_DETAILS,  \* globalc.JOB_DETAILS: a dict, as a set of <<key, value>>
    CV_DETAILS,   \* globalc.CV_DETAILS
    locals,    \* upload_file: each handler's local variables
    on_loop,   \* TRUE while no handler ran inside another's synchronous part
    pending_approvals,  \* email_service: id -> pending entry
    sent_emails,        \* email_service: id -> sent entry
    email_threads,      \* email_service: id -> list of messages
    clock,     \* email_service: datetime.now(), in hours
    resp,      \* email_service: the last endpoint's response
    routed,    \* should_continue: the state it was given and what it returned
    stream,    \* improve_email_stream: the generator's position and events
    gmail      \* GmailService: the last call, its inputs and what it returned

\* What the single-stage workflow leaves alone, and what the two-stage one does.
upload == <<pc, global_lock, JOB_DETAILS, CV_DETAILS, locals, on_loop>>

service == <<pending_approvals, sent_emails, email_threads, clock, resp>>

lib == <<routed, stream, gmail>>

notWorkflow == <<sessions, io, agent, tio, upload, service, lib>>

notEnh == <<threads, ret, agent, tio, upload, service, lib>>

\* What the tool-use variant leaves alone.
notTool == <<threads, ret, sessions, io, upload, service, lib>>

\* What the upload handlers leave alone.
notUpload == <<threads, ret, sessions, io, agent, tio, service, lib>>

\* What the email service leaves alone.
notService == <<threads, ret, sessions, io, agent, tio, upload, lib>>

\* What should_continue, the streaming generator and GmailService leave alone.
notRoute == <<threads, ret, sessions, io, agent, tio, upload, service,
              stream, gmail>>

notStream == <<threads, ret, sessions, io, agent, tio, upload, service,
               routed, gmail>>

notGmail == <<threads, ret, sessions, io, agent, tio, upload, service,
              routed, stream>>

vars == <<threads, ret, sessions, io, agent, tio, upload, service, lib>>

NoMeta == [request_length |-> -1, draft_length |-> -1, status |-> "none"]

\* A thread id the checkpointer has never seen.
NoThread ==
    [next |-> "none", user_request |-> Null, email_draft |-> Null,
     user_feedback |-> Null, metadata |-> NoMeta]

NoRet ==
    [op |-> "none", session_id |-> "none", raised |-> FALSE,
     status |-> "none", email_draft |-> Null]

\* A session id no start has returned (two-stage workflow).
NoSession ==
    [status |-> "none", user_request |-> Null, draft |-> Null,
     enhancement_feedback |-> "none", send_feedback |-> "none",
     retry_count |-> 0]

NoIo ==
    [op |-> "none", session_id |-> "none", choice |-> Null, error |-> "none",
     gen_input |-> Null, sink_input |-> Null]

\* class AgentState(MessagesState): the declared defaults, in a session that
\* waits for the agent.
FreshAgent ==
    [messages |-> <<>>, retry_count |-> 0, user_choice |-> "",
     status |-> "agent_deciding"]

NoTio == [op |-> "none", choice |-> "none", error |-> "none", invoked |-> "none"]

\* The upload_file requests in flight.
Requests == {"r1", "r2"}

\* A handler that has not assigned its locals yet.
NoLocals ==
    [result |-> {}, job_processing_result |-> "none",
     resume_processing_result |-> "none", job_details |-> {},
     cv_details |-> {}]

\* {} : a dict is a function whose domain is its set of keys.
EmptyDict == [k \in {} |-> {}]

\* pending_emails: the keys of the entries a GET /api/email/pending lists.
NoResp == [op |-> "none", code |-> 0, status |-> "none", pending_emails |-> {}]

\* should_continue has not been called.
NoRoute == [op |-> "none", state |-> FreshAgent, next |-> "none"]

\* No streaming response has been requested.
NoStream ==
    [pc |-> "idle", events |-> <<>>, accumulated |-> <<>>, words |-> <<>>,
     live |-> 0, fell_back |-> FALSE]

\* No GmailService method has been called.
NoGmail == [op |-> "none"]

Init ==
    /\ threads = [s \in SessionIds |-> NoThread]
    /\ ret = NoRet
    /\ sessions = [s \in SessionIds |-> NoSession]
    /\ io = NoIo
    /\ agent = FreshAgent
    /\ tio = NoTio
    /\ pc = [r \in Requests |-> "idle"]
    /\ global_lock = "free"
    /\ JOB_DETAILS = {}
    /\ CV_DETAILS = {}
    /\ locals = [r \in Requests |-> NoLocals]
    /\ on_loop = TRUE
    /\ pending_approvals = EmptyDict
    /\ sent_emails = EmptyDict
    /\ email_threads = EmptyDict
    /\ clock = 0
    /\ resp = NoResp
    /\ routed = NoRoute
    /\ stream = NoStream
    /\ gmail = NoGmail

\* ------------------------------------------------------------ graph nodes
\* A node that reads the request with a default: only the chain can raise.
DraftEmailRaisesOnlyChain(state, gen) == gen = GenRaises

\* _draft_email_node: state["user_request"] (KeyError when absent), one call
\* of the generation chain; an exception is logged and re-raised.
DraftEmailRaises(state, gen) == state.user_request = Null \/ gen = GenRaises

\* A draft node that returns the metadata without the draft.
DraftEmailNodeNoDraft(state, gen) ==
    [state EXCEPT !.metadata = [state.metadata EXCEPT !.draft_length = Len(gen)]]

DraftEmailNode(state, gen) ==
    [state EXCEPT !.email_draft = gen,
                  !.metadata = [state.metadata EXCEPT !.draft_length = Len(gen)]]

\* A send node that records the other node's status.
SendEmailNodeCancelled(state) ==
    [state EXCEPT !.metadata = [state.metadata EXCEPT !.status = "cancelled"]]

\* _send_email_node: the send is simulated; the node records status "sent".
SendEmailNode(state) ==
    [state EXCEPT !.metadata = [state.metadata EXCEPT !.status = "sent"]]

\* A cancel node that returns a new metadata mapping instead of extending the
\* state's.
OperationCancelledNodeFreshMeta(state) ==
    [state EXCEPT !.metadata = [NoMeta EXCEPT !.status = "cancelled"]]

\* _operation_cancelled_node
OperationCancelledNode(state) ==
    [state EXCEPT !.metadata = [state.metadata EXCEPT !.status = "cancelled"]]

\* _should_send_email
ShouldSendEmail(state) ==
    LET raw == IF state.user_feedback = Null THEN <<>> ELSE state.user_feedback
    IN  IF IsYes(raw) THEN "send_email" ELSE "cancel_operation"

\* A runtime that records the failed node in the checkpointed metadata.
RunFromEntryRecordsFailure(state, gen) ==
    IF DraftEmailRaises(state, gen)
    THEN [state EXCEPT !.next = "draft_email",
                       !.metadata = [state.metadata EXCEPT !.status = "failed"]]
    ELSE [DraftEmailNode(state, gen) EXCEPT !.next = "interrupted"]

\* The graph from its entry point: draft_email, then the interrupt.  A raising
\* node leaves the checkpoint written for the input, with draft_email pending.
RunFromEntry(state, gen) ==
    IF DraftEmailRaises(state, gen)
    THEN [state EXCEPT !.next = "draft_email"]
    ELSE [DraftEmailNode(state, gen) EXCEPT !.next = "interrupted"]

\* A resume that hands the node the resume input alone, without the
\* checkpointed request.
RunFromInterruptInputOnly(state) ==
    LET input == [state EXCEPT !.user_request = Null]
        after == IF ShouldSendEmail(input) = "send_email"
                 THEN SendEmailNode(input)
                 ELSE OperationCancelledNode(input)
    IN  [after EXCEPT !.next = "end"]

\* The graph past the interrupt: the conditional edge, the node, END.
RunFromInterrupt(state) ==
    LET node == ShouldSendEmail(state)
        after == IF node = "send_email" THEN SendEmailNode(state)
                 ELSE OperationCancelledNode(state)
    IN  [after EXCEPT !.next = "end"]

\* ------------------------------------------------------------- operations
\* start_workflow(user_request, session_id=None)
\* sid is the caller's session_id, which may name an existing thread, or the
\* uuid4() drawn when none is given, which names a thread without checkpoint.
StartWorkflow(sid, req, gen) ==
    /\ LET initial_state ==
               [threads[sid] EXCEPT
                    !.user_request = req,
                    !.metadata = [NoMeta EXCEPT !.request_length = Len(req)]]
           final == RunFromEntry(initial_state, gen)
       IN  /\ threads' = [threads EXCEPT ![sid] = final]
           /\ ret' = IF DraftEmailRaises(initial_state, gen)
                     THEN [NoRet EXCEPT !.op = "start_workflow",
                                        !.session_id = sid, !.raised = TRUE]
                     ELSE [op |-> "start_workflow", session_id |-> sid,
                           raised |-> FALSE, status |-> "awaiting_approval",
                           email_draft |-> final.email_draft]
    /\ UNCHANGED notWorkflow

\* resume_workflow(session_id, user_feedback)
ResumeWorkflow(sid, user_feedback, gen) ==
    LET input_state == [threads[sid] EXCEPT !.user_feedback = user_feedback]
        suspended == threads[sid].next = "interrupted"
        raises == ~suspended /\ DraftEmailRaises(input_state, gen)
        final == IF suspended THEN RunFromInterrupt(input_state)
                 ELSE RunFromEntry(input_state, gen)
    IN  /\ UNCHANGED notWorkflow
        /\ threads' = [threads EXCEPT ![sid] = final]
        /\ ret' = IF raises
                  THEN [NoRet EXCEPT !.op = "resume_workflow",
                                     !.session_id = sid, !.raised = TRUE]
                  ELSE [op |-> "resume_workflow", session_id |-> sid,
                        raised |-> FALSE, status |-> "completed",
                        email_draft |-> final.email_draft]

\* The generator outcomes that matter to a resume: none past the interrupt,
\* where draft_email does not run.
GenCalled(t) == IF t.next = "interrupted" THEN {GenRaises} ELSE GenOutcomes

Next ==
    \/ \E sid \in SessionIds, req \in UserRequests, gen \in GenOutcomes :
          StartWorkflow(sid, req, gen)
    \/ \E sid \in SessionIds, fb \in SendChoices :
          \E gen \in GenCalled(threads[sid]) : ResumeWorkflow(sid, fb, gen)

\* The session status of the specification, read off a checkpointed thread.
Status(t) ==
    IF t.metadata.status # "none" THEN t.metadata.status
    ELSE IF t.next = "interrupted" THEN "awaiting_send_decision"
    ELSE "drafting"


Spec == Init /\ [][Next]_vars

\* ------------------------------------------- two-stage workflow (spec.md 4.1)
\* Draft Generator contract (spec.md 6): non-empty text on success; start and
\* decide_enhancement fail with GenerationError when it raises or returns "".
GenFails(gen) == gen = GenRaises \/ gen = <<>>

\* start(user_request) -> Session: a new session (the id is never reused).
Start(sid, req, gen) ==
    /\ sessions[sid].status = "none"
    /\ LET drafting == [NoSession EXCEPT !.status = "drafting",
                                         !.user_request = req]
       IN  sessions' = [sessions EXCEPT ![sid] =
                IF GenFails(gen) THEN drafting
                ELSE [drafting EXCEPT !.draft = gen,
                          !.status = "awaiting_enhancement_decision"]]
    /\ io' = [NoIo EXCEPT !.op = "start", !.session_id = sid,
                  !.error = IF GenFails(gen) THEN "GenerationError" ELSE "none",
                  !.gen_input = req]
    /\ UNCHANGED notEnh

\* The session decide_enhancement leaves behind when it is accepted.
Enhanced(session, choice, gen) ==
    IF IsYes(choice)
    THEN IF GenFails(gen) THEN session
         ELSE [session EXCEPT !.draft = gen, !.enhancement_feedback = "yes",
                              !.status = "awaiting_send_decision"]
    ELSE [session EXCEPT !.enhancement_feedback = "no",
                         !.status = "awaiting_send_decision"]

\* An enhancement step that starts over from the original request.
EnhanceInputFromRequest(session) == session.user_request

\* The text decide_enhancement hands to the Draft Generator.
EnhanceInput(session) == session.draft

\* decide_enhancement(session_id, choice) -> Session
DecideEnhancement(sid, choice, gen) ==
    LET session == sessions[sid]
        error == IF session.status = "none" THEN "SessionNotFoundError"
                 ELSE IF session.status # "awaiting_enhancement_decision"
                 THEN "InvalidStateError"
                 ELSE IF IsYes(choice) /\ GenFails(gen) THEN "GenerationError"
                 ELSE "none"
        called == session.status = "awaiting_enhancement_decision" /\ IsYes(choice)
    IN  /\ sessions' = [sessions EXCEPT ![sid] =
                IF error = "none" THEN Enhanced(session, choice, gen) ELSE session]
        /\ io' = [NoIo EXCEPT !.op = "decide_enhancement", !.session_id = sid,
                      !.choice = choice, !.error = error,
                      !.gen_input = IF called THEN EnhanceInput(session) ELSE Null]
        /\ UNCHANGED notEnh

\* decide_send(session_id, choice) -> Session
DecideSend(sid, choice, sink_ok) ==
    LET session == sessions[sid]
        error == IF session.status = "none" THEN "SessionNotFoundError"
                 ELSE IF session.status # "awaiting_send_decision"
                 THEN "InvalidStateError"
                 ELSE IF IsYes(choice) /\ ~sink_ok THEN "SendError"
                 ELSE "none"
        called == session.status = "awaiting_send_decision" /\ IsYes(choice)
    IN  /\ sessions' = [sessions EXCEPT ![sid] =
                IF error # "none" THEN session
                ELSE IF IsYes(choice)
                THEN [session EXCEPT !.send_feedback = "yes", !.status = "sent"]
                ELSE [session EXCEPT !.send_feedback = "no",
                                     !.status = "cancelled"]]
        /\ io' = [NoIo EXCEPT !.op = "decide_send", !.session_id = sid,
                      !.choice = choice, !.error = error,
                      !.sink_input = IF called THEN session.draft ELSE Null]
        /\ UNCHANGED notEnh

\* get_state(session_id) -> Session: a pure lookup.
GetState(sid) ==
    /\ sessions' = sessions
    /\ io' = [NoIo EXCEPT !.op = "get_state", !.session_id = sid,
                  !.error = IF sessions[sid].status = "none"
                            THEN "SessionNotFoundError" ELSE "none"]
    /\ UNCHANGED notEnh

\* The generator outcomes that matter to decide_enhancement: none unless the
\* enhancement step runs.
EnhGenCalled(session, choice) ==
    IF session.status = "awaiting_enhancement_decision" /\ IsYes(choice)
    THEN GenOutcomes ELSE {GenRaises}

EnhNext ==
    \/ \E sid \in SessionIds, req \in UserRequests, gen \in GenOutcomes :
          Start(sid, req, gen)
    \/ \E sid \in SessionIds, choice \in Choices :
          \E gen \in EnhGenCalled(sessions[sid], choice) :
              DecideEnhancement(sid, choice, gen)
    \/ \E sid \in SessionIds, choice \in Choices, sink_ok \in BOOLEAN :
          DecideSend(sid, choice, sink_ok)
    \/ \E sid \in SessionIds : GetState(sid)

SpecEnh == Init /\ [][EnhNext]_vars
\* ================================================================= claims
\* ------------------------------------------------ tool-use variant (main.py)
MAX_RETRIES == 3

\* tools = [get_fact, get_quote, get_joke, get_database_schema, ...]
EchoTools == {"get_fact", "get_quote", "get_joke"}

DbTools == {"get_database_schema", "get_applicant_details", "get_job_details"}

Tools == EchoTools \cup DbTools

\* The names a model response can carry: the bound tools and one other name.
ToolNames == Tools \cup {"other_tool"}

ToolArgs == {"a1", "a2"}

\* What a database tool can return.
DbResults == {"row1", "row2"}

\* The HumanMessage agent_node puts in front of an empty conversation.
SystemMsg == [type |-> "human", tool_calls |-> <<>>, content |-> <<"system">>]

\* AIMessage with one tool call / AIMessage(content=...) without any.
AICall(name, args) ==
    [type |-> "ai", tool_calls |-> <<[name |-> name, args |-> args]>>,
     content |-> <<>>]

AIText(content) == [type |-> "ai", tool_calls |-> <<>>, content |-> content]

\* What model_with_tools.invoke can answer.
Responses ==
    {AICall(n, a) : n \in ToolNames, a \in ToolArgs} \cup {AIText(<<"answer">>)}

Last(msgs) == msgs[Len(msgs)]

HasToolCalls(m) == m.type = "ai" /\ m.tool_calls # <<>>

\* agent_node: the system message in front of an empty conversation; the model
\* is invoked only when the latest message is a HumanMessage.
AgentNode(state, response) ==
    LET msgs == IF state.messages = <<>> THEN <<SystemMsg>> ELSE state.messages
    IN  IF Last(msgs).type = "human"
        THEN [state EXCEPT !.messages = Append(msgs, response)]
        ELSE [state EXCEPT !.messages = msgs]

\* A routing without the approval branch: a tool call goes to execute_tool.
ShouldContinueNoApproval(state) ==
    IF state.messages = <<>> THEN "END"
    ELSE IF state.user_choice \in {"cancelled", "max_retries"} THEN "END"
    ELSE IF Last(state.messages).type = "ai"
            /\ ~HasToolCalls(Last(state.messages)) THEN "END"
    ELSE "execute_tool"

\* should_continue
ShouldContinue(state) ==
    IF state.messages = <<>> THEN "END"
    ELSE IF HasToolCalls(Last(state.messages)) THEN "human_approval"
    ELSE IF state.user_choice \in {"cancelled", "max_retries"} THEN "END"
    ELSE IF Last(state.messages).type = "ai" THEN "END"
    ELSE "execute_tool"

\* The f-string prefix execute_tool_node puts before a tool's output.
ResponsePrefix(tool_name) ==
    CASE tool_name = "get_fact" -> "Here's an interesting fact: "
      [] tool_name = "get_quote" -> "Here's a motivational quote: "
      [] tool_name = "get_joke" -> "Here's a joke: "
      [] tool_name = "get_database_schema" -> "Database schema:"
      [] tool_name = "get_applicant_details" -> "Applicant information:"
      [] tool_name = "get_job_details" -> "Job information:"

\* get_fact, get_quote and get_joke return their argument; the database
\* tools return what the database holds.
ToolResult(tool_name, args, db) == IF tool_name \in EchoTools THEN args ELSE db

\* The tool execute_tool_node invokes in this state, "none" when it invokes
\* no tool.
ToolInvoked(state) ==
    IF state.messages = <<>> \/ ~HasToolCalls(Last(state.messages)) THEN "none"
    ELSE LET tool_name == Last(state.messages).tool_calls[1].name
         IN  IF tool_name \in Tools THEN tool_name ELSE "none"

\* execute_tool_node
ExecuteToolNode(state, db) ==
    IF state.messages = <<>> \/ ~HasToolCalls(Last(state.messages))
    THEN state
    ELSE LET tool_call == Last(state.messages).tool_calls[1]
             response ==
                 IF tool_call.name \in Tools
                 THEN <<ResponsePrefix(tool_call.name),
                        ToolResult(tool_call.name, tool_call.args, db)>>
                 ELSE <<"I don't have any tools to use.">>
         IN  [state EXCEPT !.messages = Append(@, AIText(response))]

\* propose_tool_call: the agent's turn, then the routing; a proposed tool call
\* suspends the session for the human's approval.
ProposeToolCall(response, db) ==
    /\ agent.status = "agent_deciding"
    /\ LET after == AgentNode(agent, response)
           route == ShouldContinue(after)
       IN  /\ agent' =
                  IF route = "human_approval"
                  THEN [after EXCEPT !.status = "human_approval"]
                  ELSE IF route = "END" THEN [after EXCEPT !.status = "ended"]
                  ELSE ExecuteToolNode(after, db)
           /\ tio' = [NoTio EXCEPT !.op = "propose_tool_call",
                          !.invoked = IF route = "execute_tool"
                                      THEN ToolInvoked(after) ELSE "none"]
    /\ UNCHANGED notTool

\* A retry gate that starts the count over when it loops back to the agent.
RetriedResets(state) ==
    LET n == state.retry_count + 1
    IN  IF n >= MAX_RETRIES
        THEN [state EXCEPT !.retry_count = n, !.user_choice = "max_retries",
                           !.status = "max_retries_reached"]
        ELSE [state EXCEPT !.retry_count = 0, !.user_choice = "retry",
                           !.status = "agent_deciding"]

\* A retry gate that compares the count with the cap before incrementing it.
RetriedComparesFirst(state) ==
    IF state.retry_count >= MAX_RETRIES
    THEN [state EXCEPT !.user_choice = "max_retries",
                       !.status = "max_retries_reached"]
    ELSE [state EXCEPT !.retry_count = @ + 1, !.user_choice = "retry",
                       !.status = "agent_deciding"]

\* The retry gate: the count is incremented, then compared with the cap.
Retried(state) ==
    LET n == state.retry_count + 1
    IN  IF n >= MAX_RETRIES
        THEN [state EXCEPT !.retry_count = n, !.user_choice = "max_retries",
                           !.status = "max_retries_reached"]
        ELSE [state EXCEPT !.retry_count = n, !.user_choice = "retry",
                           !.status = "agent_deciding"]

\* approve(session, choice: yes|no|retry)
Approve(choice, db) ==
    LET waiting == agent.status = "human_approval"
    IN  /\ agent' =
               IF ~waiting THEN agent
               ELSE IF choice = "yes"
               THEN [ExecuteToolNode(agent, db) EXCEPT
                         !.user_choice = "yes", !.status = "agent_deciding"]
               ELSE IF choice = "retry" THEN Retried(agent)
               ELSE [agent EXCEPT !.user_choice = "cancelled",
                                  !.status = "cancelled"]
        /\ tio' = [op |-> "approve", choice |-> choice,
                   error |-> IF waiting THEN "none" ELSE "InvalidStateError",
                   invoked |-> IF waiting /\ choice = "yes"
                               THEN ToolInvoked(agent) ELSE "none"]
        /\ UNCHANGED notTool

ToolChoices == {"yes", "no", "retry"}

ToolNext ==
    \/ \E response \in Responses, db \in DbResults :
          ProposeToolCall(response, db)
    \/ \E choice \in ToolChoices, db \in DbResults : Approve(choice, db)

SpecTool == Init /\ [][ToolNext]_vars

\* ------------------------------------- upload_file and the scratch dicts
\* Two of the keys of each extraction: one the LLM fills (None in the error
\* record), one cut from the request's own text.
JobKeys == {"job_title", "extracted_job_description"}

CvKeys == {"email", "extracted_resume_text"}

\* cleaned_result / error_result of extract_job_details for request r: a
\* value is named after the request whose text it was extracted from.
JobResult(r, ok) ==
    {<<"job_title", IF ok THEN r ELSE "None">>,
     <<"extracted_job_description", r>>}

\* cleaned_result / error_result of extract_applicant_details
CvResult(r, ok) ==
    {<<"email", IF ok THEN r ELSE "None">>, <<"extracted_resume_text", r>>}

Keys(d) == {kv[1] : kv \in d}

\* dict.update(other)
Update(d, other) == {kv \in d : kv[1] \notin Keys(other)} \cup other

\* The requests whose text a dict's values come from.
Origins(d) == {kv[2] : kv \in d} \ {"None"}

\* A handler is in its synchronous part from get_job_content to the return.
InSync(r) == pc[r] \notin {"idle", "saved", "done"}

\* Request r takes a step: a single event loop runs no handler while another
\* is inside its synchronous part.
Step(r, from, to) ==
    /\ pc[r] = from
    /\ pc' = [pc EXCEPT ![r] = to]
    /\ on_loop' = (on_loop /\ \A q \in Requests \ {r} : ~InSync(q))
    /\ UNCHANGED notUpload

\* with global_lock: (entry)
Acquire(r) == global_lock = "free" /\ global_lock' = r

\* with global_lock: (exit)
Release(r) == global_lock' = "free"

\* upload_file up to "content = await file.read()" and the file's save.
ReceiveUpload(r) ==
    /\ Step(r, "idle", "saved")
    /\ UNCHANGED <<global_lock, JOB_DETAILS, CV_DETAILS, locals>>

LoadOutcomes == {"load_failed", "extracted", "extract_failed"}

\* get_job_content(link) up to the lock: the loader fails (the scratch dict
\* is not touched), or extract_job_details has its result to store.
GetJobContent(r, outcome) ==
    /\ IF outcome = "load_failed"
       THEN /\ Step(r, "saved", "resume")
            /\ locals' = [locals EXCEPT ![r].job_processing_result = "error"]
       ELSE /\ Step(r, "saved", "job_lock")
            /\ locals' = [locals EXCEPT
                   ![r].result = JobResult(r, outcome = "extracted"),
                   ![r].job_processing_result = outcome]
    /\ UNCHANGED <<global_lock, JOB_DETAILS, CV_DETAILS>>

JobLock(r) ==
    /\ Step(r, "job_lock", "job_clear")
    /\ Acquire(r)
    /\ UNCHANGED <<JOB_DETAILS, CV_DETAILS, locals>>

\* JOB_DETAILS.clear()
JobClear(r) ==
    /\ Step(r, "job_clear", "job_update")
    /\ JOB_DETAILS' = {}
    /\ UNCHANGED <<global_lock, CV_DETAILS, locals>>

\* JOB_DETAILS.update(cleaned_result), and the end of the with block
JobUpdate(r) ==
    /\ Step(r, "job_update", "resume")
    /\ JOB_DETAILS' = Update(JOB_DETAILS, locals[r].result)
    /\ Release(r)
    /\ UNCHANGED <<CV_DETAILS, locals>>

\* process_resume_pdf(file.filename) up to the lock
ProcessResumePdf(r, outcome) ==
    /\ IF outcome = "load_failed"
       THEN /\ Step(r, "resume", "read_lock")
            /\ locals' = [locals EXCEPT ![r].resume_processing_result = "error"]
       ELSE /\ Step(r, "resume", "cv_lock")
            /\ locals' = [locals EXCEPT
                   ![r].result = CvResult(r, outcome = "extracted"),
                   ![r].resume_processing_result = "success"]
    /\ UNCHANGED <<global_lock, JOB_DETAILS, CV_DETAILS>>

CvLock(r) ==
    /\ Step(r, "cv_lock", "cv_clear")
    /\ Acquire(r)
    /\ UNCHANGED <<JOB_DETAILS, CV_DETAILS, locals>>

\* CV_DETAILS.clear()
CvClear(r) ==
    /\ Step(r, "cv_clear", "cv_update")
    /\ CV_DETAILS' = {}
    /\ UNCHANGED <<global_lock, JOB_DETAILS, locals>>

\* CV_DETAILS.update(cleaned_result), and the end of the with block
CvUpdate(r) ==
    /\ Step(r, "cv_update", "read_lock")
    /\ CV_DETAILS' = Update(CV_DETAILS, locals[r].result)
    /\ Release(r)
    /\ UNCHANGED <<JOB_DETAILS, locals>>

\* A snapshot taken without the lock.
ReadLockSkipped(r) ==
    /\ Step(r, "read_lock", "read_job")
    /\ UNCHANGED <<global_lock, JOB_DETAILS, CV_DETAILS, locals>>

\* upload_file: with global_lock:
ReadLock(r) ==
    /\ Step(r, "read_lock", "read_job")
    /\ Acquire(r)
    /\ UNCHANGED <<JOB_DETAILS, CV_DETAILS, locals>>

\* A handler that answers with its own extraction's result.
ReadJobOwnResult(r) ==
    /\ Step(r, "read_job", "read_cv")
    /\ locals' = [locals EXCEPT ![r].job_details =
           JobResult(r, locals[r].job_processing_result = "extracted")]
    /\ UNCHANGED <<global_lock, JOB_DETAILS, CV_DETAILS>>

\* job_details = dict(JOB_DETAILS)
ReadJob(r) ==
    /\ Step(r, "read_job", "read_cv")
    /\ locals' = [locals EXCEPT ![r].job_details = JOB_DETAILS]
    /\ UNCHANGED <<global_lock, JOB_DETAILS, CV_DETAILS>>

\* cv_details = dict(CV_DETAILS), the end of the with block, and the return
ReadCv(r) ==
    /\ Step(r, "read_cv", "done")
    /\ locals' = [locals EXCEPT ![r].cv_details = CV_DETAILS]
    /\ Release(r)
    /\ UNCHANGED <<JOB_DETAILS, CV_DETAILS>>

UploadNext ==
    \/ \E r \in Requests : ReceiveUpload(r)
    \/ \E r \in Requests, outcome \in LoadOutcomes : GetJobContent(r, outcome)
    \/ \E r \in Requests : JobLock(r)
    \/ \E r \in Requests : JobClear(r)
    \/ \E r \in Requests : JobUpdate(r)
    \/ \E r \in Requests, outcome \in LoadOutcomes :
          ProcessResumePdf(r, outcome)
    \/ \E r \in Requests : CvLock(r)
    \/ \E r \in Requests : CvClear(r)
    \/ \E r \in Requests : CvUpdate(r)
    \/ \E r \in Requests : ReadLock(r)
    \/ \E r \in Requests : ReadJob(r)
    \/ \E r \in Requests : ReadCv(r)

SpecUpload == Init /\ [][UploadNext]_vars

\* --------------------------------------------- email service (api/)
EmailIds == {"e1", "e2"}

Recipients == {"a@x", "b@x"}

\* The clock stops at this many hours.
MaxClock == 48

\* timedelta(hours=24)
ExpiryHours == 24

\* d[key] = value
Put(d, key, value) ==
    [k \in DOMAIN d \cup {key} |-> IF k = key THEN value ELSE d[k]]

\* del d[key] for every key of keys
Without(d, keys) == [k \in DOMAIN d \ keys |-> d[k]]

\* EmailRequest / EmailSendRequest .dict(), told apart by the recipient.
Email(to) == [to |-> to]

\* The keys no dict holds: what uuid4() can draw.
FreshIds ==
    EmailIds \ (DOMAIN pending_approvals \cup DOMAIN sent_emails
                   \cup DOMAIN email_threads)

\* The first message of a thread.  The sent_at and timestamp fields, which
\* no handler reads, are left out of the sent entries and the messages.
InitialMessage(to) ==
    [id |-> 1, sender |-> "recruiter@company.com", recipient |-> to,
     content |-> "Initial recruitment email sent",
     type |-> "sent", status |-> "delivered"]

\* The reply send_email simulates, two hours later.
SimulatedReply(to) ==
    [id |-> 2, sender |-> to, recipient |-> "recruiter@company.com",
     content |-> "Hi, thank you for reaching out!",
     type |-> "received", status |-> "read"]

\* Time passes, one expiry period at a time.
Tick ==
    /\ clock + ExpiryHours <= MaxClock
    /\ clock' = clock + ExpiryHours
    /\ UNCHANGED <<pending_approvals, sent_emails, email_threads, resp>>
    /\ UNCHANGED notService

\* POST /api/email/pending: email_id = email.id or str(uuid.uuid4())
CreatePendingEmail(id, to, uuid) ==
    /\ LET email_id == IF id = "" THEN uuid ELSE id
       IN  /\ pending_approvals' = Put(pending_approvals, email_id,
                   [email |-> Email(to), created_at |-> clock,
                    status |-> "pending"])
           /\ resp' = [NoResp EXCEPT !.op = "create_pending_email",
                          !.code = 200, !.status = "pending"]
    /\ UNCHANGED <<sent_emails, email_threads, clock>>
    /\ UNCHANGED notService

\* An age test that also expires an entry exactly 24 hours old.
ExpiredAtLimit(data, current_time) ==
    current_time - data.created_at >= ExpiryHours

\* current_time - data["created_at"] > timedelta(hours=24)
Expired(data, current_time) == current_time - data.created_at > ExpiryHours

\* GET /api/email/pending: entries older than 24 hours are deleted first.
GetPendingEmails ==
    /\ LET expired_ids ==
               {id \in DOMAIN pending_approvals :
                    Expired(pending_approvals[id], clock)}
       IN  pending_approvals' = Without(pending_approvals, expired_ids)
    /\ resp' = [NoResp EXCEPT !.op = "get_pending_emails", !.code = 200,
                   !.pending_emails =
                       {id \in DOMAIN pending_approvals' :
                            pending_approvals'[id].status = "pending"}]
    /\ UNCHANGED <<sent_emails, email_threads, clock>>
    /\ UNCHANGED notService

\* An approval that leaves the pending entry's status as it was.
ApproveKnownKeepsStatus(approval_id, approved) ==
    /\ sent_emails' = Put(sent_emails, approval_id,
           [email |-> pending_approvals[approval_id].email,
            status |-> "sent"])
    /\ email_threads' = Put(email_threads, approval_id,
           <<InitialMessage(pending_approvals[approval_id].email.to)>>)
    /\ pending_approvals' = pending_approvals

\* approve_email on a known id: the three dicts after the call.
ApproveKnown(approval_id, approved) ==
    IF approved
    THEN /\ sent_emails' = Put(sent_emails, approval_id,
                [email |-> pending_approvals[approval_id].email,
                 status |-> "sent"])
         /\ email_threads' = Put(email_threads, approval_id,
                <<InitialMessage(pending_approvals[approval_id].email.to)>>)
         /\ pending_approvals' = [pending_approvals EXCEPT
                ![approval_id].status = "approved_and_sent"]
    ELSE /\ pending_approvals' = [pending_approvals EXCEPT
                ![approval_id].status = "rejected"]
         /\ UNCHANGED <<sent_emails, email_threads>>

\* POST /api/email/approve
ApproveEmail(approval_id, approved) ==
    /\ IF approval_id \notin DOMAIN pending_approvals
       THEN /\ resp' = [NoResp EXCEPT !.op = "approve_email", !.code = 404]
            /\ UNCHANGED <<pending_approvals, sent_emails, email_threads>>
       ELSE /\ ApproveKnown(approval_id, approved)
            /\ resp' = [NoResp EXCEPT !.op = "approve_email", !.code = 200,
                           !.status = pending_approvals'[approval_id].status]
    /\ UNCHANGED clock
    /\ UNCHANGED notService

\* POST /api/email/send: stored as sent without the approval queue.
SendEmail(id, to, uuid, has_candidate) ==
    /\ LET email_id == IF id = "" THEN uuid ELSE id
       IN  /\ sent_emails' = Put(sent_emails, email_id,
                   [email |-> Email(to), status |-> "sent"])
           /\ email_threads' = Put(email_threads, email_id,
                   IF has_candidate
                   THEN <<InitialMessage(to), SimulatedReply(to)>>
                   ELSE <<InitialMessage(to)>>)
           /\ resp' = [NoResp EXCEPT !.op = "send_email", !.code = 200,
                          !.status = "sent"]
    /\ UNCHANGED <<pending_approvals, clock>>
    /\ UNCHANGED notService

\* The ids a request can carry: a chosen one, or none ("").
GivenIds == EmailIds \cup {""}

\* uuid4() is called only when the request carries no id.
Drawn(id) == IF id = "" THEN FreshIds ELSE {id}

ServiceNext ==
    \/ Tick
    \/ \E id \in GivenIds, to \in Recipients :
          \E uuid \in Drawn(id) : CreatePendingEmail(id, to, uuid)
    \/ GetPendingEmails
    \/ \E id \in EmailIds, approved \in BOOLEAN : ApproveEmail(id, approved)
    \/ \E id \in GivenIds, to \in Recipients, has_candidate \in BOOLEAN :
          \E uuid \in Drawn(id) : SendEmail(id, to, uuid, has_candidate)

SpecService == Init /\ [][ServiceNext]_vars

\* ---------------------------------------------- should_continue (main.py)
MaxMessages == 3

\* user_choice: the declared default and the values the workflow gives it.
UserChoices == {"", "yes", "retry", "cancelled", "max_retries"}

\* One message of each kind should_continue tells apart: a HumanMessage, an
\* AIMessage with a tool call and an AIMessage without.
RouteMessages == {SystemMsg, AICall("get_fact", "a1"), AIText(<<"answer">>)}

\* state["messages"]: every conversation of at most MaxMessages messages.
Conversations == UNION {[1..k -> RouteMessages] : k \in 0..MaxMessages}

AgentStates ==
    {[FreshAgent EXCEPT !.messages = m, !.user_choice = c] :
        m \in Conversations, c \in UserChoices}

\* A call of should_continue(state).
Route(state) ==
    /\ routed' = [op |-> "should_continue", state |-> state,
                 next |-> ShouldContinue(state)]
    /\ UNCHANGED notRoute

RouteNext == \E state \in AgentStates : Route(state)

SpecRoute == Init /\ [][RouteNext]_vars

\* ------------------------------------- improve_email_stream (server.py)
\* The chunks the live stream delivers before it ends or fails.
MaxChunks == 2

\* The words the non-streaming answer splits into.
MaxWords == 2

\* chunk.content: empty, or some text.
ChunkContents == {"", "a", "b"}

\* What the iteration over the live stream does next.
LiveOutcomes == ChunkContents \cup {"<end>", "<raise>"}

\* improved_content.split(): a list of non-empty words.
WordLists == UNION {[1..k -> {"a", "b"}] : k \in 0..MaxWords}

\* What email_improvement_chain.invoke does: it raises, or returns a text.
FallbackOutcomes == {GenRaises} \cup WordLists

StatusEvent(message) == [type |-> "status", content |-> <<message>>]

ChunkEvent(content, accumulated) ==
    [type |-> "chunk", content |-> <<content, accumulated>>]

CompleteEvent(final_content) ==
    [type |-> "complete", content |-> final_content]

ErrorEvent == [type |-> "error", content |-> <<>>]

\* yield f"data: {json.dumps(event)}\n\n"
Yield(s, event) == [s EXCEPT !.events = Append(@, event)]

\* An outer handler that reports the error and lets the generator go on to
\* its completion.
FailWithAndGoOn(s) == [Yield(s, ErrorEvent) EXCEPT !.pc = "complete"]

\* except Exception as e: the error event, and the generator returns.
FailWith(s) == [Yield(s, ErrorEvent) EXCEPT !.pc = "done"]

\* The generator's first step: the context string is built, which raises on
\* a context whose candidate_info or job_info is not a dict of the expected
\* shape; then the initial status.
StartStreaming(context_ok) ==
    /\ stream.pc = "idle"
    /\ stream' =
           IF context_ok
           THEN [Yield(stream, StatusEvent("Starting email improvement..."))
                    EXCEPT !.pc = "started"]
           ELSE FailWith(stream)
    /\ UNCHANGED notStream

\* chain_input is built and the processing status is sent.
SendProcessing ==
    /\ stream.pc = "started"
    /\ stream' = [Yield(stream, StatusEvent("Processing with Groq AI..."))
                     EXCEPT !.pc = "open", !.accumulated = <<>>]
    /\ UNCHANGED notStream

\* stream = await asyncio.to_thread(lambda: groq_model.stream(...))
OpenStream(ok) ==
    /\ stream.pc = "open"
    /\ stream' = [stream EXCEPT !.pc = IF ok THEN "live" ELSE "fallback"]
    /\ UNCHANGED notStream

\* for chunk in stream: a chunk with content is sent on, one without is
\* dropped; the iteration ends, or raises and the fallback takes over.
LiveChunk(outcome) ==
    /\ stream.pc = "live"
    /\ outcome \in ChunkContents => stream.live < MaxChunks
    /\ stream' =
           IF outcome = "<end>" THEN [stream EXCEPT !.pc = "complete"]
           ELSE IF outcome = "<raise>" THEN [stream EXCEPT !.pc = "fallback"]
           ELSE IF outcome = "" THEN [stream EXCEPT !.live = @ + 1]
           ELSE LET accumulated == Append(stream.accumulated, outcome)
                IN  [Yield(stream, ChunkEvent(<<outcome>>, accumulated)) EXCEPT
                        !.accumulated = accumulated, !.live = @ + 1]
    /\ UNCHANGED notStream

\* improved_content = await asyncio.to_thread(email_improvement_chain.invoke,
\* chain_input); words = improved_content.split(); accumulated_content = ""
Fallback(outcome) ==
    /\ stream.pc = "fallback"
    /\ stream' =
           IF outcome = GenRaises
           THEN FailWith([stream EXCEPT !.fell_back = TRUE])
           ELSE [stream EXCEPT !.pc = "words", !.words = outcome,
                               !.accumulated = <<>>, !.fell_back = TRUE]
    /\ UNCHANGED notStream

\* for i, word in enumerate(words): one chunk per word, a space after every
\* word but the last.
FallbackWord ==
    /\ stream.pc = "words"
    /\ stream' =
           IF stream.words = <<>> THEN [stream EXCEPT !.pc = "complete"]
           ELSE LET word == Head(stream.words)
                    last == Len(stream.words) = 1
                    content == IF last THEN <<word>> ELSE <<word, " ">>
                    accumulated == stream.accumulated \o content
                IN  [Yield(stream, ChunkEvent(content, accumulated)) EXCEPT
                        !.accumulated = accumulated, !.words = Tail(@)]
    /\ UNCHANGED notStream

\* The completion event with the accumulated content.
Complete ==
    /\ stream.pc = "complete"
    /\ stream' = [Yield(stream, CompleteEvent(stream.accumulated))
                     EXCEPT !.pc = "done"]
    /\ UNCHANGED notStream

StreamNext ==
    \/ \E context_ok \in BOOLEAN : StartStreaming(context_ok)
    \/ SendProcessing
    \/ \E ok \in BOOLEAN : OpenStream(ok)
    \/ \E outcome \in LiveOutcomes : LiveChunk(outcome)
    \/ \E outcome \in FallbackOutcomes : Fallback(outcome)
    \/ FallbackWord
    \/ Complete

SpecStream == Init /\ [][StreamNext]_vars

\* ----------------------------------------- GmailService (gmail_tools.py)
\* GmailService keeps nothing between two calls: a behaviour is one call of
\* one method on inputs drawn from the sets below.
MaxBodyLen == 4

MaxResults == 2

\* The characters of a body: a letter, a blank, a dash, a line break, and
\* "Q" for a text one of quote_patterns matches.
BodyChars == {"a", " ", "-", "\n", "Q"}

Bodies == UNION {[1..n -> BodyChars] : n \in 0..MaxBodyLen}

\* s.split(sep)
RECURSIVE Split(_, _)
Split(s, sep) ==
    IF \A i \in 1..Len(s) : s[i] # sep THEN <<s>>
    ELSE LET i == CHOOSE j \in 1..Len(s) :
                      s[j] = sep /\ \A k \in 1..(j - 1) : s[k] # sep
         IN  <<SubSeq(s, 1, i - 1)>> \o Split(SubSeq(s, i + 1, Len(s)), sep)

\* sep.join(lines)
RECURSIVE Join(_, _)
Join(lines, sep) ==
    IF lines = <<>> THEN <<>>
    ELSE IF Len(lines) = 1 THEN lines[1]
    ELSE lines[1] \o <<sep>> \o Join(Tail(lines), sep)

\* re.search(pattern, line, re.IGNORECASE) for any of quote_patterns
IsQuote(line) == \E i \in 1..Len(line) : line[i] = "Q"

\* A loop that skips a quote line and goes on with the lines after it.
RECURSIVE CleanLinesSkipping(_)
CleanLinesSkipping(lines) ==
    IF lines = <<>> THEN <<>>
    ELSE IF IsQuote(Head(lines)) THEN CleanLinesSkipping(Tail(lines))
    ELSE <<Head(lines)>> \o CleanLinesSkipping(Tail(lines))

\* for line in lines: the loop stops at the first quote line.
RECURSIVE CleanLines(_)
CleanLines(lines) ==
    IF lines = <<>> THEN <<>>
    ELSE IF IsQuote(Head(lines)) THEN <<>>
    ELSE <<Head(lines)>> \o CleanLines(Tail(lines))

IsDash(c) == c \in {"_", "-"}

RECURSIVE DropDashes(_)
DropDashes(s) ==
    IF s # <<>> /\ IsDash(s[Len(s)])
    THEN DropDashes(SubSeq(s, 1, Len(s) - 1)) ELSE s

\* re.sub(r'[_-]+\s*$', '', s): the last run of dashes and underscores goes,
\* with the white space after it, when nothing else follows it.
RemoveTrailingDashes(s) ==
    LET t == RStrip(s)
    IN  IF t # <<>> /\ IsDash(t[Len(t)]) THEN DropDashes(t) ELSE s

\* _clean_email_body
CleanEmailBody(body) ==
    IF body = <<>> THEN <<>>
    ELSE LET clean_lines == CleanLines(Split(body, "\n"))
             clean_body == Strip(Join(clean_lines, "\n"))
         IN  Strip(RemoveTrailingDashes(clean_body))

\* The address searched for, and the account's own.
Address == "bob@x.io"

Me == "me@x.io"

MessageIds == {"m1", "m2", "m3"}

\* The messages Gmail holds, as the API returns them with format='full': m1
\* from the address, m2 a reply to it that quotes m1, m3 from another
\* address with the same user name.  date is the rank of the Date header
\* among the three header strings compared as strings; internalDate is the
\* time Gmail received the message.
Mailbox ==
    [m \in MessageIds |->
        CASE m = "m1" ->
                 [id |-> m, from |-> <<Address>>, to |-> <<Me>>,
                  date |-> 2, internalDate |-> 1, body |-> <<"a">>]
          [] m = "m2" ->
                 [id |-> m, from |-> <<Me>>, to |-> <<"Bob <", Address, ">">>,
                  date |-> 3, internalDate |-> 2,
                  body |-> <<"a", "\n", "Q", "\n", "a">>]
          [] m = "m3" ->
                 [id |-> m, from |-> <<"bob@y.io">>, to |-> <<Me>>,
                  date |-> 1, internalDate |-> 3, body |-> <<" ", "a", "-">>]]

\* _format_message: the headers and the cleaned body; the resource's other
\* fields, internalDate among them, are not copied.
FormatMessage(message) ==
    [id |-> message.id, from |-> message.from, to |-> message.to,
     date |-> message.date, body |-> Strip(CleanEmailBody(message.body))]

Formatted == {FormatMessage(Mailbox[m]) : m \in MessageIds}

\* list.sort(key=...): a stable sort, by insertion.
RECURSIVE Insert(_, _, _)
Insert(sorted, x, key) ==
    IF sorted = <<>> THEN <<x>>
    ELSE IF key[sorted[Len(sorted)]] <= key[x] THEN Append(sorted, x)
    ELSE Append(Insert(SubSeq(sorted, 1, Len(sorted) - 1), x, key),
                sorted[Len(sorted)])

RECURSIVE SortIn(_, _, _)
SortIn(sorted, rest, key) ==
    IF rest = <<>> THEN sorted
    ELSE SortIn(Insert(sorted, Head(rest), key), Tail(rest), key)

Sort(messages, key) == SortIn(<<>>, messages, key)

\* key=lambda x: int(x.get('internalDate', 0))
InternalDateKey ==
    [x \in Formatted |->
        IF "internalDate" \in DOMAIN x THEN x.internalDate ELSE 0]

\* key=lambda x: x.get('date', ''), reverse=True
NewestFirstKey == [x \in Formatted |-> 0 - x.date]

\* The sequences without repetition over a set of message ids.
RECURSIVE Orders(_)
Orders(ids) ==
    IF ids = {} THEN {<<>>}
    ELSE UNION {{<<m>> \o o : o \in Orders(ids \ {m})} : m \in ids}

\* thread['messages']: the messages of a thread, in any order.
ThreadListings == UNION {Orders(ids) : ids \in SUBSET MessageIds}

HttpErrors == {"none", "threads.get", "messages.get"}

\* get_thread_messages
GetThreadMessages(listing, http_error) ==
    /\ gmail.op = "none"
    /\ http_error = "messages.get" => listing # <<>>
    /\ gmail' =
           [op |-> "get_thread_messages", listing |-> listing,
            http_error |-> http_error,
            result |->
                IF http_error # "none" THEN <<>>
                ELSE Sort([i \in 1..Len(listing) |->
                              FormatMessage(Mailbox[listing[i]])],
                          InternalDateKey)]
    /\ UNCHANGED notGmail

\* A call of _clean_email_body(body).
CleanBody(body) ==
    /\ gmail.op = "none"
    /\ gmail' = [op |-> "_clean_email_body", body |-> body,
                 result |-> CleanEmailBody(body)]
    /\ UNCHANGED notGmail

\* email in formatted.get('from', ''): the address is part of the header.
Contains(header, email) == \E i \in 1..Len(header) : header[i] = email

QueryFails == <<"<query fails>">>

\* messages().list(q=query, maxResults=max_results): the ids of the messages
\* the query finds, newest first, at most max_results of them.
QueryListing(found, max_results) ==
    LET Found(m) == m \in found
        all == SelectSeq(<<"m3", "m2", "m1">>, Found)
    IN  IF Len(all) <= max_results THEN all ELSE SubSeq(all, 1, max_results)

\* What one of the four queries can return for a max_results.
QueryOutcomes(max_results) ==
    {QueryFails} \cup {QueryListing(found, max_results) :
                           found \in SUBSET MessageIds}

\* The messages whose messages().get raises.
FetchFailures == {{}} \cup {{m} : m \in MessageIds}

\* An inner loop that does not look at seen_message_ids.
RECURSIVE RunQueryNoSeen(_, _, _, _)
RunQueryNoSeen(acc, listing, fetch_fails, max_results) ==
    IF listing = <<>> THEN acc
    ELSE LET id == Head(listing)
             formatted == FormatMessage(Mailbox[id])
             rest == Tail(listing)
         IN  IF id \in fetch_fails
             THEN RunQueryNoSeen(acc, rest, fetch_fails, max_results)
             ELSE IF Contains(formatted.from, Address)
                     \/ Contains(formatted.to, Address)
             THEN LET next == [messages |-> Append(acc.messages, formatted),
                               seen |-> acc.seen \cup {id}]
                  IN  IF Len(next.messages) >= max_results THEN next
                      ELSE RunQueryNoSeen(next, rest, fetch_fails, max_results)
             ELSE RunQueryNoSeen(acc, rest, fetch_fails, max_results)

\* for msg in results.get('messages', []): a seen id is skipped, a failing
\* fetch is skipped, a message without the address in from or to is
\* dropped, and the loop stops when max_results messages are collected.
RECURSIVE RunQuery(_, _, _, _)
RunQuery(acc, listing, fetch_fails, max_results) ==
    IF listing = <<>> THEN acc
    ELSE LET id == Head(listing)
             formatted == FormatMessage(Mailbox[id])
             rest == Tail(listing)
         IN  IF id \in acc.seen \/ id \in fetch_fails
             THEN RunQuery(acc, rest, fetch_fails, max_results)
             ELSE IF Contains(formatted.from, Address)
                     \/ Contains(formatted.to, Address)
             THEN LET next == [messages |-> Append(acc.messages, formatted),
                               seen |-> acc.seen \cup {id}]
                  IN  IF Len(next.messages) >= max_results THEN next
                      ELSE RunQuery(next, rest, fetch_fails, max_results)
             ELSE RunQuery(acc, rest, fetch_fails, max_results)

\* for query in queries: stops when max_results messages are collected; a
\* failing query is skipped.
RECURSIVE RunQueries(_, _, _, _)
RunQueries(acc, outcomes, fetch_fails, max_results) ==
    IF outcomes = <<>> \/ Len(acc.messages) >= max_results THEN acc
    ELSE IF Head(outcomes) = QueryFails
    THEN RunQueries(acc, Tail(outcomes), fetch_fails, max_results)
    ELSE RunQueries(RunQuery(acc, Head(outcomes), fetch_fails, max_results),
                    Tail(outcomes), fetch_fails, max_results)

\* get_messages_by_email(Address, max_results)
GetMessagesByEmail(outcomes, fetch_fails, max_results) ==
    /\ gmail.op = "none"
    /\ LET acc == RunQueries([messages |-> <<>>, seen |-> {}], outcomes,
                             fetch_fails, max_results)
           sorted == Sort(acc.messages, NewestFirstKey)
       IN  gmail' =
               [op |-> "get_messages_by_email", outcomes |-> outcomes,
                fetch_fails |-> fetch_fails, max_results |-> max_results,
                result |-> IF Len(sorted) <= max_results THEN sorted
                           ELSE SubSeq(sorted, 1, max_results)]
    /\ UNCHANGED notGmail

\* The inputs of the call: none once the call is made.
Inputs(S) == IF gmail.op = "none" THEN S ELSE {}

GmailNext ==
    \/ \E listing \in Inputs(ThreadListings), http_error \in HttpErrors :
          GetThreadMessages(listing, http_error)
    \/ \E body \in Inputs(Bodies) : CleanBody(body)
    \/ \E max_results \in Inputs(0..MaxResults), fetch_fails \in FetchFailures :
          \E outcomes \in [1..4 -> QueryOutcomes(max_results)] :
              GetMessagesByEmail(outcomes, fetch_fails, max_results)

SpecGmail == Init /\ [][GmailNext]_vars

Terminal == {"sent", "cancelled", "max_retries_reached"}

\* The literal test of the claims: the trimmed, lower-cased text equals "yes".
TrimmedLowerIsYes(c) == Lower(Strip(c)) = S_yes

\* The step is a call of op on session s (every call sets ret to its own).
Called(op, s) == ret'.op = op /\ ret'.session_id = s

\* C1: the send_email node marks a session "sent" only in a resume_workflow
\* step whose decision, trimmed and lower-cased, equals "yes" and that found
\* the session suspended after drafting; start_workflow ends suspended after
\* draft_email (or with the draft failed) and never in send or cancel.
C1_SendOnlyAfterYes ==
    [][\A s \in SessionIds :
          /\ Called("start_workflow", s) =>
                 /\ threads'[s].next \in {"interrupted", "draft_email"}
                 /\ threads'[s].metadata.status = "none"
          /\ (threads'[s].metadata.status = "sent"
                  /\ threads[s].metadata.status # "sent") =>
                 /\ Called("resume_workflow", s)
                 /\ threads[s].next = "interrupted"
                 /\ TrimmedLowerIsYes(threads'[s].user_feedback)]_vars

C1_Witness ==
    \E s \in SessionIds :
        /\ threads[s].metadata.status = "sent"
        /\ threads[s].user_feedback = S_padded_YES
        /\ ret.op = "resume_workflow"
        /\ ret.session_id = s

\* C2: once a session's status is sent or cancelled, every further
\* resume_workflow call on it fails and leaves its status and its draft as
\* they were: a terminal status is never left.
C2_TerminalIsFinal ==
    [][\A s \in SessionIds :
          (Called("resume_workflow", s) /\ Status(threads[s]) \in Terminal) =>
              /\ ret'.raised
              /\ Status(threads'[s]) = Status(threads[s])
              /\ threads'[s].email_draft = threads[s].email_draft]_vars

\* C3: resume_workflow (the send decision) is accepted only while the session
\* waits for that decision; on an existing session in any other status the
\* call fails and status, draft and request stay as they were.
C3_OnlyInWaitingState ==
    [][\A s \in SessionIds :
          (/\ Called("resume_workflow", s)
           /\ threads[s].next # "none"
           /\ Status(threads[s]) # "awaiting_send_decision") =>
              /\ ret'.raised
              /\ Status(threads'[s]) = Status(threads[s])
              /\ threads'[s].email_draft = threads[s].email_draft
              /\ threads'[s].user_request = threads[s].user_request]_vars

\* C5: resume_workflow with "yes" on a session awaiting the send decision runs
\* the send_email node, once, on the session's current draft, and returns with
\* the session in status sent (never cancelled), the run at END.
C5_YesSends ==
    [][\A s \in SessionIds :
          (/\ Called("resume_workflow", s)
           /\ Status(threads[s]) = "awaiting_send_decision"
           /\ threads'[s].user_feedback = S_yes) =>
              /\ ~ret'.raised
              /\ Status(threads'[s]) = "sent"
              /\ threads'[s].next = "end"
              /\ threads'[s].email_draft = threads[s].email_draft
              /\ ret'.email_draft = threads[s].email_draft]_vars

C5_Witness ==
    \E s \in SessionIds :
        /\ ret.op = "resume_workflow" /\ ret.session_id = s
        /\ threads[s].user_feedback = S_yes
        /\ threads[s].metadata.status = "sent"
        /\ threads[s].next = "end"
        /\ threads[s].email_draft = Text(2)

\* C6: resume_workflow with a decision other than "yes" on a session awaiting
\* the send decision sets the status to cancelled and nothing else: draft,
\* request and the rest of the metadata keep their values, the send_email
\* node does not run, and no other session changes.
C6_NoCancelsOnly ==
    [][\A s \in SessionIds :
          (/\ Called("resume_workflow", s)
           /\ Status(threads[s]) = "awaiting_send_decision"
           /\ ~TrimmedLowerIsYes(threads'[s].user_feedback)) =>
              /\ ~ret'.raised
              /\ threads'[s] = [threads[s] EXCEPT
                     !.next = "end",
                     !.user_feedback = threads'[s].user_feedback,
                     !.metadata = [threads[s].metadata EXCEPT
                                       !.status = "cancelled"]]
              /\ \A o \in SessionIds \ {s} : threads'[o] = threads[o]]_vars

C6_Witness ==
    \E s \in SessionIds :
        /\ ret.op = "resume_workflow" /\ ret.session_id = s
        /\ threads[s].user_feedback = S_YES_please
        /\ threads[s].metadata.status = "cancelled"
        /\ threads[s].metadata.draft_length = 2
        /\ threads[s].email_draft = Text(2)

\* C8: start_workflow with a generator that returns non-empty text T leaves
\* the session with draft T, waiting for the send decision, and reports
\* status awaiting_approval with draft T; and a draft, once stored, is never
\* absent again.
C8_StartYieldsDraft ==
    [][\A s \in SessionIds :
          /\ Called("start_workflow", s) =>
                 \A T \in Texts \ {<<>>} :
                     StartWorkflow(s, threads'[s].user_request, T) =>
                     /\ ~ret'.raised
                     /\ ret'.status = "awaiting_approval"
                     /\ ret'.email_draft = T
                     /\ threads'[s].email_draft = T
                     /\ threads'[s].metadata.draft_length = Len(T)
                     /\ Status(threads'[s]) = "awaiting_send_decision"
          /\ threads'[s].next \in {"interrupted", "end"} =>
                 threads'[s].email_draft # Null
          /\ threads[s].email_draft # Null => threads'[s].email_draft # Null]_vars

C8_Witness ==
    \E s \in SessionIds :
        /\ ret.op = "start_workflow" /\ ret.session_id = s
        /\ ret.status = "awaiting_approval"
        /\ ret.email_draft = Text(2)
        /\ threads[s].email_draft = Text(2)
        /\ threads[s].next = "interrupted"

\* C9: start_workflow fails when the Draft Generator raises and when it
\* returns empty text: it never reports an awaiting status together with an
\* empty draft.
C9_StartRejectsEmptyDraft ==
    (ret.op = "start_workflow" /\ ret.status = "awaiting_approval") =>
        (ret.email_draft # <<>> /\ ret.email_draft # Null)

\* The step is a call of the two-stage operation op on session s.
EnhCalled(op, s) == io'.op = op /\ io'.session_id = s

\* C4: decide_enhancement on a session awaiting the enhancement decision, with
\* any decision whose trimmed, lower-cased form is not "yes" ("no", "",
\* "maybe", "YES please"), gives the session that "no" gives: draft unmodified,
\* status awaiting_send_decision, no Draft Generator call; " YES ", "Yes" and
\* "yes" take the positive branch, which calls the Draft Generator.
C4_TolerantParsing ==
    [][\A s \in SessionIds :
          (/\ EnhCalled("decide_enhancement", s)
           /\ sessions[s].status = "awaiting_enhancement_decision") =>
              /\ io'.choice \in {S_no, S_empty, S_maybe, S_YES_please} =>
                     /\ io'.error = "none"
                     /\ io'.gen_input = Null
                     /\ sessions'[s] = [sessions[s] EXCEPT
                            !.enhancement_feedback = "no",
                            !.status = "awaiting_send_decision"]
              /\ io'.choice \in {S_padded_YES, S_Yes, S_yes} =>
                     /\ io'.gen_input # Null
                     /\ io'.error = "none" =>
                            sessions'[s].enhancement_feedback = "yes"]_vars

C4_Witness ==
    \E s \in SessionIds :
        /\ io.op = "decide_enhancement" /\ io.session_id = s
        /\ io.choice = S_YES_please
        /\ io.error = "none"
        /\ sessions[s].status = "awaiting_send_decision"
        /\ sessions[s].enhancement_feedback = "no"
        /\ sessions[s].draft = Text(2)

\* C10: decide_enhancement("yes") on a session awaiting the enhancement
\* decision calls the Draft Generator with the session's current draft (not
\* the user_request) and, when it returns non-empty text T, replaces the draft
\* by T and ends in status awaiting_send_decision.
C10_EnhanceFromCurrentDraft ==
    [][\A s \in SessionIds, T \in Texts \ {<<>>} :
          (/\ EnhCalled("decide_enhancement", s)
           /\ sessions[s].status = "awaiting_enhancement_decision"
           /\ DecideEnhancement(s, S_yes, T)) =>
              /\ io'.gen_input = sessions[s].draft
              /\ io'.error = "none"
              /\ sessions'[s].draft = T
              /\ sessions'[s].status = "awaiting_send_decision"
              /\ sessions'[s].user_request = sessions[s].user_request]_vars

C10_Witness ==
    \E s \in SessionIds :
        /\ io.op = "decide_enhancement" /\ io.session_id = s
        /\ io.choice = S_yes
        /\ io.error = "none"
        /\ io.gen_input = Text(1)
        /\ sessions[s].user_request = Text(2)
        /\ sessions[s].draft = Text(2)
        /\ sessions[s].status = "awaiting_send_decision"

C16_StartNeverOverwrites ==
    [][\A s \in SessionIds :
          (Called("start_workflow", s) /\ threads[s].user_request # Null) =>
              threads'[s] = threads[s]]_vars

\* C17: user_request is immutable once set: no step other than a
\* start_workflow call on the session itself changes it (resume_workflow and
\* the draft, send and cancel nodes it runs keep it), and the draft node
\* run by start_workflow stores the request that call was given.
C17_UserRequestImmutable ==
    [][\A s \in SessionIds :
          /\ (threads[s].user_request # Null /\ ~Called("start_workflow", s)) =>
                 threads'[s].user_request = threads[s].user_request
          /\ Called("start_workflow", s) =>
                 /\ threads'[s].user_request \in UserRequests
                 /\ threads'[s].metadata.request_length =
                        Len(threads'[s].user_request)]_vars

\* A session that went through draft, a refused send and a resumed run still
\* holds its request.
C17_Witness ==
    \E s \in SessionIds :
        /\ threads[s].user_request = Text(2)
        /\ threads[s].metadata.status = "cancelled"
        /\ threads[s].next = "interrupted"
        /\ ret.op = "resume_workflow"
        /\ ret.session_id = s

\* The step is a call of approve with this choice.
Approved(choice) == tio'.op = "approve" /\ tio'.choice = choice

\* C12: in the tool-use variant retry_count stays within 0..MAX_RETRIES; it
\* is 0 in a fresh session, a step changes it only by +1 and only when it is
\* an accepted approve("retry"), and no step resets or decreases it.
C12_RetryCountBounded ==
    /\ agent.retry_count = 0
    /\ [][/\ agent'.retry_count \in 0..MAX_RETRIES
          /\ agent'.retry_count >= agent.retry_count
          /\ agent'.retry_count # agent.retry_count =>
                 /\ agent'.retry_count = agent.retry_count + 1
                 /\ Approved("retry")
                 /\ agent.status = "human_approval"
          /\ (Approved("retry") /\ agent.status = "human_approval") =>
                 agent'.retry_count = agent.retry_count + 1]_vars

\* A second retry was accepted and the session is back with the agent.
C12_Witness ==
    /\ agent.retry_count = 2
    /\ agent.status = "agent_deciding"
    /\ tio.op = "approve"
    /\ tio.choice = "retry"

\* C13: the n-th accepted approve("retry") of a session leaves retry_count
\* = n; the first two return the session to agent_deciding and the third
\* (not the fourth) ends it in max_retries_reached with retry_count = 3;
\* after that no approve is accepted and nothing changes.
C13_ThirdRetryHitsCap ==
    [][/\ (Approved("retry") /\ agent.status = "human_approval") =>
              /\ agent'.retry_count = agent.retry_count + 1
              /\ agent'.retry_count \in {1, 2} =>
                     agent'.status = "agent_deciding"
              /\ agent'.retry_count = 3 =>
                     agent'.status = "max_retries_reached"
              /\ agent'.retry_count <= 3
       /\ agent.status = "max_retries_reached" =>
              /\ agent.retry_count = 3
              /\ agent' = agent
              /\ tio'.op = "approve" => tio'.error = "InvalidStateError"]_vars

\* The third retry has just been accepted.
C13_Witness ==
    /\ agent.retry_count = 3
    /\ agent.status = "max_retries_reached"
    /\ tio.op = "approve"
    /\ tio.choice = "retry"
    /\ tio.error = "none"

\* C14: a proposed tool call suspends the session in human_approval without
\* invoking anything; a tool is invoked only by an approve("yes") accepted
\* for the pending proposal, and it is the proposed tool; that step appends
\* one AIMessage holding the tool's result and returns to agent_deciding;
\* approve("no") ends in cancelled, invokes no tool and appends nothing.
C14_ToolOnlyAfterYes ==
    [][/\ tio'.invoked # "none" =>
              /\ Approved("yes")
              /\ agent.status = "human_approval"
              /\ HasToolCalls(Last(agent.messages))
              /\ tio'.invoked = Last(agent.messages).tool_calls[1].name
       /\ (tio'.op = "propose_tool_call"
              /\ HasToolCalls(Last(agent'.messages))) =>
              /\ agent'.status = "human_approval"
              /\ tio'.invoked = "none"
       /\ (Approved("yes") /\ agent.status = "human_approval") =>
              /\ Len(agent'.messages) = Len(agent.messages) + 1
              /\ SubSeq(agent'.messages, 1, Len(agent.messages)) =
                     agent.messages
              /\ Last(agent'.messages).type = "ai"
              /\ ~HasToolCalls(Last(agent'.messages))
              /\ LET call == Last(agent.messages).tool_calls[1]
                 IN  /\ call.name \in EchoTools =>
                            Last(agent'.messages).content =
                                <<ResponsePrefix(call.name), call.args>>
                     /\ call.name \in Tools <=> tio'.invoked = call.name
              /\ agent'.status = "agent_deciding"
       /\ (Approved("no") /\ agent.status = "human_approval") =>
              /\ agent'.status = "cancelled"
              /\ agent'.messages = agent.messages
              /\ tio'.invoked = "none"]_vars

\* get_joke("a2") was approved and executed.
C14_Witness ==
    /\ tio.op = "approve"
    /\ tio.choice = "yes"
    /\ tio.invoked = "get_joke"
    /\ agent.status = "agent_deciding"
    /\ Len(agent.messages) = 3
    /\ Last(agent.messages) = AIText(<<"Here's a joke: ", "a2">>)

\* The positions inside a with global_lock: block.
Critical ==
    {"job_clear", "job_update", "cv_clear", "cv_update", "read_job", "read_cv"}

\* A dict as one extraction leaves it: every key, values of one request.
Whole(d, keys) == Keys(d) = keys /\ Cardinality(Origins(d)) = 1

\* C18: every clear-then-update of JOB_DETAILS and CV_DETAILS and every
\* snapshot of both happens with global_lock held for the whole sequence: a
\* handler between the entry and the exit of a with block holds the lock, no
\* two handlers are inside such a block, and each dictionary a snapshot
\* copied is either still empty as at import or whole, never cleared and not
\* yet populated and never a mix of two extractions' values.
C18_ScratchUnderLock ==
    /\ \A r \in Requests : pc[r] \in Critical => global_lock = r
    /\ \A r, q \in Requests :
          (r # q /\ pc[r] \in Critical) => pc[q] \notin Critical
    /\ \A r \in Requests :
          pc[r] \in {"read_job", "read_cv"} =>
              /\ JOB_DETAILS = {} \/ Whole(JOB_DETAILS, JobKeys)
              /\ CV_DETAILS = {} \/ Whole(CV_DETAILS, CvKeys)
              /\ JOB_DETAILS = {} =>
                     \A q \in Requests : locals[q].job_processing_result
                         \in {"none", "error"} \/ pc[q] = "job_lock"
              /\ CV_DETAILS = {} =>
                     \A q \in Requests : locals[q].resume_processing_result
                         \in {"none", "error"} \/ pc[q] = "cv_lock"
    /\ \A r \in Requests :
          pc[r] = "done" =>
              /\ locals[r].job_details = {}
                     \/ Whole(locals[r].job_details, JobKeys)
              /\ locals[r].cv_details = {}
                     \/ Whole(locals[r].cv_details, CvKeys)

\* r1 takes its snapshot while r2 waits at the lock with a result to store.
C18_Witness ==
    /\ pc["r1"] = "read_cv"
    /\ pc["r2"] = "job_lock"
    /\ global_lock = "r1"
    /\ Whole(locals["r1"].job_details, JobKeys)

\* C19: the scratch dicts are process-wide: a handler's snapshot is whatever
\* the dicts hold at that moment, whichever request stored it.  A request
\* whose own load failed never returns its own data in that field: it
\* returns the values another request stored, or nothing.
C19_ScratchIsProcessWide ==
    /\ \A r \in Requests :
          (pc[r] \in {"read_cv", "done"}
              /\ locals[r].job_processing_result = "error") =>
              r \notin Origins(locals[r].job_details)
    /\ \A r \in Requests :
          (pc[r] = "done" /\ locals[r].resume_processing_result = "error") =>
              r \notin Origins(locals[r].cv_details)
    /\ \A r \in Requests :
          pc[r] = "read_cv" => locals[r].job_details = JOB_DETAILS

\* Two requests in flight on one event loop: r1's response carries the job
\* details r2's extraction stored and its own applicant details.
C19_Witness ==
    /\ on_loop
    /\ pc["r1"] = "done"
    /\ pc["r2"] = "done"
    /\ Origins(locals["r1"].job_details) = {"r2"}
    /\ Origins(locals["r1"].cv_details) = {"r1"}

\* C20: approve_email on an id that is not in pending_approvals answers 404
\* and changes none of the three dicts; on a known id with approved = true
\* it stores the pending entry's email in sent_emails with status "sent",
\* makes email_threads[id] a thread of one message and sets the pending
\* entry's status to "approved_and_sent"; with approved = false it sets the
\* status to "rejected" and leaves sent_emails and email_threads unchanged.
\* Entries under other ids are not touched.
C20_ApproveEmail ==
    [][\A id \in EmailIds, approved \in BOOLEAN :
          ApproveEmail(id, approved) =>
              /\ id \notin DOMAIN pending_approvals =>
                     /\ resp'.code = 404
                     /\ UNCHANGED <<pending_approvals, sent_emails,
                                    email_threads>>
              /\ (id \in DOMAIN pending_approvals /\ approved) =>
                     /\ resp'.code = 200
                     /\ resp'.status = "approved_and_sent"
                     /\ id \in DOMAIN sent_emails'
                     /\ sent_emails'[id].status = "sent"
                     /\ sent_emails'[id].email = pending_approvals[id].email
                     /\ id \in DOMAIN email_threads'
                     /\ Len(email_threads'[id]) = 1
                     /\ email_threads'[id][1].recipient =
                            pending_approvals[id].email.to
                     /\ pending_approvals' = [pending_approvals EXCEPT
                            ![id].status = "approved_and_sent"]
                     /\ \A other \in DOMAIN sent_emails \ {id} :
                            /\ other \in DOMAIN sent_emails'
                            /\ sent_emails'[other] = sent_emails[other]
                     /\ \A other \in DOMAIN email_threads \ {id} :
                            /\ other \in DOMAIN email_threads'
                            /\ email_threads'[other] = email_threads[other]
              /\ (id \in DOMAIN pending_approvals /\ ~approved) =>
                     /\ resp'.code = 200
                     /\ resp'.status = "rejected"
                     /\ pending_approvals' = [pending_approvals EXCEPT
                            ![id].status = "rejected"]
                     /\ UNCHANGED <<sent_emails, email_threads>>]_vars

\* e1 was approved and sent to b@x while e2 is unknown to every dict.
C20_Witness ==
    /\ resp.op = "approve_email"
    /\ resp.status = "approved_and_sent"
    /\ DOMAIN pending_approvals = {"e1"}
    /\ pending_approvals["e1"].status = "approved_and_sent"
    /\ DOMAIN sent_emails = {"e1"}
    /\ sent_emails["e1"].email = Email("b@x")
    /\ Len(email_threads["e1"]) = 1

\* C21: a get_pending_emails call removes from pending_approvals exactly the
\* entries created more than 24 hours ago, whatever their status, keeps
\* every other entry as it was and lists exactly the remaining entries
\* whose status is "pending"; no other call removes an entry, and
\* approve_email accepts an entry older than 24 hours that is still there.
C21_SweepOlderThanDay ==
    [][/\ resp'.op = "get_pending_emails" =>
              /\ DOMAIN pending_approvals' =
                     {id \in DOMAIN pending_approvals :
                          clock - pending_approvals[id].created_at <= 24}
              /\ \A id \in DOMAIN pending_approvals' :
                     pending_approvals'[id] = pending_approvals[id]
              /\ resp'.pending_emails =
                     {id \in DOMAIN pending_approvals' :
                          pending_approvals'[id].status = "pending"}
              /\ \A id \in resp'.pending_emails :
                     pending_approvals'[id].status
                         \notin {"approved_and_sent", "rejected"}
       /\ resp'.op # "get_pending_emails" =>
              DOMAIN pending_approvals \subseteq DOMAIN pending_approvals'
       /\ \A id \in DOMAIN pending_approvals, approved \in BOOLEAN :
              (ApproveEmail(id, approved)
                  /\ clock - pending_approvals[id].created_at > 24) =>
                  /\ resp'.code = 200
                  /\ id \in DOMAIN pending_approvals']_vars

\* A sweep at hour 48 kept e2, created at hour 24 and exactly 24 hours old,
\* and lists it; e1, sent earlier, is not in pending_approvals.
C21_Witness ==
    /\ resp.op = "get_pending_emails"
    /\ clock = 48
    /\ DOMAIN pending_approvals = {"e2"}
    /\ pending_approvals["e2"].created_at = 24
    /\ resp.pending_emails = {"e2"}
    /\ "e1" \in DOMAIN sent_emails

\* C27: a decision is final: an approve_email call on an entry whose status
\* is already "rejected" or "approved_and_sent" leaves that status as it
\* is, and on a rejected entry it leaves sent_emails as it is.
C27_DecisionIsFinal ==
    [][\A id \in DOMAIN pending_approvals, approved \in BOOLEAN :
          (ApproveEmail(id, approved)
              /\ pending_approvals[id].status
                     \in {"rejected", "approved_and_sent"}) =>
              /\ pending_approvals'[id].status = pending_approvals[id].status
              /\ pending_approvals[id].status = "rejected" =>
                     sent_emails' = sent_emails]_vars

\* C28: no email id is listed with status "pending" in pending_approvals
\* while it is present in sent_emails.
C28_PendingNotSent ==
    \A id \in DOMAIN pending_approvals :
        pending_approvals[id].status = "pending" =>
            id \notin DOMAIN sent_emails

\* C29: the job details upload_file returns stem from the request's own
\* link: on one event loop, where no other handler runs between a request's
\* get_job_content and its snapshot, a finished request's job_details hold
\* no value of another request's extraction, also when its load failed.
C29_JobDetailsFromOwnLink ==
    \A r \in Requests :
        (on_loop /\ pc[r] = "done") =>
            Origins(locals[r].job_details) \subseteq {r}

\* C22: should_continue returns END whenever user_choice is 'cancelled' or
\* 'max_retries', whenever messages is empty and whenever the last message is
\* an AI message without tool calls; otherwise it returns 'human_approval'
\* for a last AI message with tool calls, and 'execute_tool' only when none
\* of these cases applies.
C22_ShouldContinueRouting ==
    routed.op = "should_continue" =>
        LET s == routed.state
            ended == \/ s.user_choice \in {"cancelled", "max_retries"}
                     \/ s.messages = <<>>
                     \/ /\ Last(s.messages).type = "ai"
                        /\ Last(s.messages).tool_calls = <<>>
        IN  /\ ended => routed.next = "END"
            /\ (~ended /\ HasToolCalls(Last(s.messages)))
                   => routed.next = "human_approval"
            /\ routed.next = "execute_tool"
                   => (~ended /\ ~HasToolCalls(Last(s.messages)))
            /\ routed.next \in {"END", "human_approval", "execute_tool"}

\* The events of a response: k status events, then m chunk events, then the
\* rest.
EventShape(events, k, m) ==
    /\ \A i \in 1..k : events[i].type = "status"
    /\ \A i \in (k + 1)..(k + m) : events[i].type = "chunk"
    /\ \A i \in (k + m + 1)..Len(events) :
           events[i].type \in {"complete", "error"}

Finals(events) ==
    {i \in 1..Len(events) : events[i].type \in {"complete", "error"}}

\* C23 as stated: a finished response is one or more status events, then
\* chunk events, then exactly one final event, 'complete' or 'error'.
C23_StatusThenChunksThenFinal ==
    stream.pc = "done" =>
        \E k \in 1..Len(stream.events), m \in 0..Len(stream.events) :
            /\ k + m + 1 = Len(stream.events)
            /\ EventShape(stream.events, k, m)

\* C23, amended: the events of a response are status events, then chunk
\* events, then at most one final event, which is there exactly when the
\* response is finished and is 'complete' or 'error', never both; a chunk or
\* a 'complete' comes only after both status events, and a response without
\* status events is the single 'error' of a failed context preparation.
C23_StreamEventOrder ==
    LET events == stream.events
    IN  /\ \E k \in 0..2, m \in 0..Len(events) :
               /\ k + m <= Len(events)
               /\ EventShape(events, k, m)
               /\ k < 2 => (m = 0 /\ \A i \in Finals(events) :
                                         events[i].type = "error")
               /\ stream.pc = "done" => k \in {0, 2}
        /\ Cardinality(Finals(events)) = IF stream.pc = "done" THEN 1 ELSE 0
        /\ Finals(events) \subseteq {Len(events)}

\* A response whose live stream failed after a chunk and whose fallback
\* delivered its words and the completion.
C23_Witness ==
    /\ stream.pc = "done"
    /\ stream.fell_back
    /\ Len(stream.events) = 6
    /\ stream.events[3].content = <<<<"a">>, <<"a">>>>
    /\ stream.events[4].content = <<<<"b", " ">>, <<"b", " ">>>>
    /\ stream.events[6] = CompleteEvent(<<"b", " ", "a">>)

\* C24: get_thread_messages returns every message of the thread, ordered by
\* Gmail's internalDate, oldest first, whatever the order of the listing; on
\* an HttpError it returns the empty list.
C24_ThreadOldestFirst ==
    gmail.op = "get_thread_messages" =>
        LET result == gmail.result
        IN  IF gmail.http_error # "none" THEN result = <<>>
            ELSE /\ Len(result) = Len(gmail.listing)
                 /\ {result[i].id : i \in 1..Len(result)}
                        = {gmail.listing[i] : i \in 1..Len(gmail.listing)}
                 /\ \A i, j \in 1..Len(result) :
                        i < j => Mailbox[result[i].id].internalDate
                                     <= Mailbox[result[j].id].internalDate

\* The text before the first line that holds a quote marker, without the
\* line break that ends it: the whole body when no line holds one.
KeptText(body) ==
    IF \A i \in 1..Len(body) : body[i] # "Q" THEN body
    ELSE LET q == CHOOSE i \in 1..Len(body) :
                      body[i] = "Q" /\ \A k \in 1..(i - 1) : body[k] # "Q"
             breaks == {k \in 1..(q - 1) : body[k] = "\n"}
         IN  IF breaks = {} THEN <<>>
             ELSE SubSeq(body, 1,
                         (CHOOSE k \in breaks : \A l \in breaks : l <= k) - 1)

\* C25 as stated: the result is exactly the lines before the first
\* quote-marker line, up to white space around them.
C25_KeepsExactlyLinesBeforeQuote ==
    gmail.op = "_clean_email_body" =>
        gmail.result = Strip(KeptText(gmail.body))

\* C25, amended: the result is a stretch of the text before the first
\* quote-marker line; what is left out in front of it is white space, what is
\* left out behind it is white space, dashes and underscores; the result
\* neither starts nor ends with white space, holds nothing of the marker line
\* or of a later one, is the stripped text when that text holds no dash, and
\* is empty for an empty body.
C25_CleanEmailBodyKeepsTextBeforeQuote ==
    gmail.op = "_clean_email_body" =>
        LET kept == KeptText(gmail.body)
            r == gmail.result
        IN  /\ gmail.body = <<>> => r = <<>>
            /\ \A i \in 1..Len(r) : r[i] # "Q"
            /\ \E i \in 1..(Len(kept) + 1), j \in 0..Len(kept) :
                   /\ r = SubSeq(kept, i, j)
                   /\ \A k \in 1..(i - 1) : IsSpace(kept[k])
                   /\ \A k \in (j + 1)..Len(kept) :
                          IsSpace(kept[k]) \/ IsDash(kept[k])
            /\ r # <<>> => (~IsSpace(r[1]) /\ ~IsSpace(r[Len(r)]))
            /\ (\A k \in 1..Len(kept) : ~IsDash(kept[k])) => r = Strip(kept)

\* A body of two lines, a quote-marker line and a line after it.
C25_Witness ==
    /\ gmail.op = "_clean_email_body"
    /\ gmail.body = <<"a", "\n", "Q", "\n">>
    /\ gmail.result = <<"a">>

\* The ids of the messages a search can collect: listed by a query that did
\* not fail, fetched without error, with the address in from or to.
Candidates ==
    {m \in MessageIds :
        /\ \E q \in 1..4 : /\ gmail.outcomes[q] # QueryFails
                           /\ \E i \in 1..Len(gmail.outcomes[q]) :
                                  gmail.outcomes[q][i] = m
        /\ m \notin gmail.fetch_fails
        /\ Contains(Mailbox[m].from, Address)
               \/ Contains(Mailbox[m].to, Address)}

\* C26: get_messages_by_email returns at most max_results messages, no
\* message id twice, only messages with the address in from or to, and a
\* failing query or fetch loses none of the other messages: the result holds
\* min(max_results, number of collectable messages) of them.
C26_SearchByAddress ==
    gmail.op = "get_messages_by_email" =>
        LET result == gmail.result
            n == Cardinality(Candidates)
        IN  /\ Len(result) <= gmail.max_results
            /\ \A i, j \in 1..Len(result) :
                   result[i].id = result[j].id => i = j
            /\ \A i \in 1..Len(result) :
                   \/ Contains(result[i].from, Address)
                   \/ Contains(result[i].to, Address)
            /\ {result[i].id : i \in 1..Len(result)} \subseteq Candidates
            /\ Len(result) = IF n <= gmail.max_results THEN n
                             ELSE gmail.max_results

\* The first query fails, m2 is listed by two queries, the fetch of m3 fails,
\* and both messages of the address are returned, newest Date header first.
C26_Witness ==
    /\ gmail.op = "get_messages_by_email"
    /\ gmail.max_results = 2
    /\ gmail.outcomes = <<QueryFails, <<"m2">>, <<"m2", "m1">>, <<"m3", "m1">>>>
    /\ gmail.fetch_fails = {"m3"}
    /\ Len(gmail.result) = 2
    /\ gmail.result[1].id = "m2"
    /\ gmail.result[2].id = "m1"
====
